---- MODULE Spec2Model ----
(***************************************************************************)
(* Model of the deduplication / merge / ID-assignment core of the          *)
(* azure-iam-research synthesis scripts:                                   *)
(*   scripts/synthesis/deduplicate.py       (TechniqueDeduplicator)        *)
(*   scripts/synthesis/generate-markdown.py (MarkdownGenerator)            *)
(*                                                                         *)
(* Python dicts are functions from field names to values; a field is       *)
(* present iff it is in the DOMAIN.  Dicts are objects: `heap` holds their *)
(* contents by reference (index), lists are sequences of references, so an *)
(* in-place update through one list is seen through every other.          *)
(* Python strings that the code takes apart (the `name`) are sequences of  *)
(* characters, tagged with their Python type; strings the code only        *)
(* compares (source and category names) are TLA+ strings.                  *)
(***************************************************************************)
EXTENDS Integers, Sequences, FiniteSets, TLC

VARIABLES
    pc,            \* position of the driver: which operation has completed
    heap,          \* contents of every dict object, indexed by reference
    orig,          \* heap as it was at construction (never changes)
    prev,          \* heap as it was before the latest operation
    techniques,    \* the list handed to the operation (references)
    deduplicated,  \* list returned by deduplicate_techniques
    again,         \* list returned by a second application
    sig_calls,     \* what each call of compute_signature gave, in call order
    outcome,       \* "ok", or the exception the latest operation raised
    files,         \* the raw-data directory: what each source file holds
    categorized,   \* list returned by categorize_techniques
    output,        \* the document in the output directory, if one is written
    argc,          \* number of command-line arguments after the script name
    exit_code,     \* whether sys.exit was called, and with which status
    stdout,        \* what the command has printed
    output_dir,    \* whether the output directory has been created
    disk           \* the markdown files under techniques_dir

\* the state of a run of the whole workflow, untouched by single operations
runVars == <<files, categorized, output>>

\* the command line and the techniques directory, untouched by the
\* operations of the deduplicator
envVars == <<argc, exit_code, stdout, output_dir, disk>>

vars == <<pc, heap, orig, prev, techniques, deduplicated, again, sig_calls,
          outcome, files, categorized, output, argc, exit_code, stdout,
          output_dir, disk>>

----------------------------------------------------------------------------
(* Bounds of the model *)

\* longest list of records handed to deduplicate_techniques
MaxLen == 3

\* longest `name` handed to compute_signature on its own
MaxNameLen == 3

\* number of calls of compute_signature on one record
MaxCalls == 2

\* longest run of records of one category at the head of an assign_ids input
MaxBulk == 100

\* longest list of records of freely chosen categories that follows the run
MaxMixed == 3

\* most records the source files of one run hold together
MaxRecords == 3

\* size of a category large enough for its numbers to pass 999
MaxFill == 701

\* the sizes up to which every size of a category is tried
MaxShort == 30

\* most command-line arguments after the script name
MaxArgs == 3

\* most records the source files hold when the command line varies
MaxCliRecords == 1

----------------------------------------------------------------------------
(* Python values and dicts *)

PyStr(chars) == [type |-> "str", chars |-> chars]
PyNone == [type |-> "NoneType"]
PyInt(n) == [type |-> "int", val |-> n]

\* dict.get(key, default)
Get(d, key, default) == IF key \in DOMAIN d THEN d[key] ELSE default

\* d[key] = value
SetField(d, key, value) ==
    [k \in DOMAIN d \cup {key} |-> IF k = key THEN value ELSE d[k]]

Whitespace == {" "}

LowerChar(c) == CASE c = "A" -> "a" [] c = "B" -> "b" [] OTHER -> c

\* str.lower()
str_lower(s) == [i \in 1..Len(s) |-> LowerChar(s[i])]

RECURSIVE LStrip(_)
LStrip(s) == IF s # <<>> /\ Head(s) \in Whitespace THEN LStrip(Tail(s)) ELSE s

RECURSIVE RStrip(_)
RStrip(s) ==
    IF s # <<>> /\ s[Len(s)] \in Whitespace
    THEN RStrip(SubSeq(s, 1, Len(s) - 1))
    ELSE s

\* str.strip()
str_strip(s) == RStrip(LStrip(s))

----------------------------------------------------------------------------
(* TechniqueDeduplicator *)

\* a table that ranks the sources in the order their files are loaded
SOURCE_AUTHORITY_InLoadOrder ==
    [s \in {"Microsoft Official Documentation",
            "MITRE ATT&CK Framework",
            "Security Research Aggregation"} |->
        CASE s = "Microsoft Official Documentation" -> 100
          [] s = "MITRE ATT&CK Framework" -> 50
          [] s = "Security Research Aggregation" -> 90]

SOURCE_AUTHORITY ==
    [s \in {"Microsoft Official Documentation",
            "MITRE ATT&CK Framework",
            "Security Research Aggregation"} |->
        CASE s = "Microsoft Official Documentation" -> 100
          [] s = "MITRE ATT&CK Framework" -> 90
          [] s = "Security Research Aggregation" -> 50]

\* self.SOURCE_AUTHORITY.get(source, 0)
Authority(source) ==
    IF source \in DOMAIN SOURCE_AUTHORITY THEN SOURCE_AUTHORITY[source] ELSE 0

\* technique['name'].lower().strip(): a lookup without default
compute_signature_NoDefault(technique) ==
    IF "name" \notin DOMAIN technique
    THEN [raised |-> TRUE, error |-> "KeyError"]
    ELSE IF technique["name"].type = "str"
    THEN [raised |-> FALSE,
          value |-> str_strip(str_lower(technique["name"].chars))]
    ELSE [raised |-> TRUE, error |-> "AttributeError"]

\* technique.get('name', '').lower().strip(): the attribute lookup .lower
\* exists on str only, so any other value raises AttributeError.
compute_signature(technique) ==
    LET name == Get(technique, "name", PyStr(<<>>))
    IN  IF name.type = "str"
        THEN [raised |-> FALSE, value |-> str_strip(str_lower(name.chars))]
        ELSE [raised |-> TRUE, error |-> "AttributeError"]

\* mutant of MaxByAuthority: the group's first record, whatever its authority
MaxByAuthority_First(h, tech_list, i, best) == tech_list[1]

\* a max that keeps the last of the elements whose key is the greatest
RECURSIVE MaxByAuthority_Last(_, _, _, _)
MaxByAuthority_Last(h, tech_list, i, best) ==
    IF i > Len(tech_list) THEN best
    ELSE LET k(r) == Authority(Get(h[r], "source", ""))
         IN  MaxByAuthority_Last(h, tech_list, i + 1,
                 IF k(tech_list[i]) >= k(best) THEN tech_list[i] ELSE best)

\* max(techniques, key=...): the first element whose key is the greatest
RECURSIVE MaxByAuthority(_, _, _, _)
MaxByAuthority(h, tech_list, i, best) ==
    IF i > Len(tech_list) THEN best
    ELSE LET k(r) == Authority(Get(h[r], "source", ""))
         IN  MaxByAuthority(h, tech_list, i + 1,
                 IF k(tech_list[i]) > k(best) THEN tech_list[i] ELSE best)

\* the loop collecting all_sources: one entry per source name, first seen first
RECURSIVE CollectSources(_, _, _, _)
CollectSources(h, tech_list, i, all_sources) ==
    IF i > Len(tech_list) THEN all_sources
    ELSE LET source == Get(h[tech_list[i]], "source", "Unknown")
             seen == {all_sources[j].name : j \in 1..Len(all_sources)}
         IN  CollectSources(h, tech_list, i + 1,
                 IF source \notin seen
                 THEN Append(all_sources,
                          [name |-> source, authority |-> Authority(source)])
                 ELSE all_sources)

\* insert e behind every entry whose authority is at least e's
InsertByAuthority(sorted, e) ==
    LET ahead == {j \in 1..Len(sorted) : sorted[j].authority >= e.authority}
        n == Cardinality(ahead)
    IN  SubSeq(sorted, 1, n) \o <<e>> \o SubSeq(sorted, n + 1, Len(sorted))

\* mutant of SortedByAuthority: the entries left in the order collected
SortedByAuthority_Unsorted(all_sources, i, sorted) == all_sources

\* sorted(all_sources, key=lambda s: s['authority'], reverse=True): stable
RECURSIVE SortedByAuthority(_, _, _)
SortedByAuthority(all_sources, i, sorted) ==
    IF i > Len(all_sources) THEN sorted
    ELSE SortedByAuthority(all_sources, i + 1,
             InsertByAuthority(sorted, all_sources[i]))

\* a merge that keeps the group's first record and cites the sources in
\* group order
merge_techniques_InGroupOrder(h, tech_list) ==
    LET primary == tech_list[1]
        all_sources == CollectSources(h, tech_list, 1, <<>>)
        withSources == SetField(h[primary], "sources", all_sources)
        merged == SetField(withSources, "source_count", Len(all_sources))
    IN  [heap |-> [h EXCEPT ![primary] = merged], primary |-> primary]

\* a merge that writes the source list into every record of the group
merge_techniques_StampsAll(h, tech_list) ==
    LET primary == MaxByAuthority(h, tech_list, 2, tech_list[1])
        all_sources == CollectSources(h, tech_list, 1, <<>>)
        members == {tech_list[k] : k \in 1..Len(tech_list)}
        Merged(t) == SetField(SetField(t, "sources",
                                  SortedByAuthority(all_sources, 1, <<>>)),
                              "source_count", Len(all_sources))
    IN  [heap |-> [r \in 1..Len(h) |->
                      IF r \in members THEN Merged(h[r]) ELSE h[r]],
         primary |-> primary]

\* merge_techniques: the primary is updated in place and returned
merge_techniques(h, tech_list) ==
    LET primary == MaxByAuthority(h, tech_list, 2, tech_list[1])
        all_sources == CollectSources(h, tech_list, 1, <<>>)
        withSources == SetField(h[primary], "sources",
                           SortedByAuthority(all_sources, 1, <<>>))
        merged == SetField(withSources, "source_count", Len(all_sources))
    IN  [heap |-> [h EXCEPT ![primary] = merged], primary |-> primary]

\* mutant of MapIndex: a signature is never found again
MapIndex_NeverFound(signature_map, sig) == 0

\* index of sig's entry in the insertion-ordered signature_map, 0 if absent
MapIndex(signature_map, sig) ==
    LET at == {j \in 1..Len(signature_map) : signature_map[j].sig = sig}
    IN  IF at = {} THEN 0 ELSE CHOOSE j \in at : TRUE

\* mutant of GroupBySignature: a new signature's entry goes to the front
RECURSIVE GroupBySignature_NewestFirst(_, _, _, _)
GroupBySignature_NewestFirst(h, techs, i, signature_map) ==
    IF i > Len(techs) THEN signature_map
    ELSE LET sig == compute_signature(h[techs[i]]).value
             at == {j \in 1..Len(signature_map) : signature_map[j].sig = sig}
             map1 == IF at = {}
                     THEN <<[sig |-> sig, tech_list |-> <<>>]>> \o signature_map
                     ELSE signature_map
             j == IF at = {} THEN 1 ELSE CHOOSE x \in at : TRUE
         IN  GroupBySignature_NewestFirst(h, techs, i + 1,
                 [map1 EXCEPT ![j].tech_list = Append(@, techs[i])])

\* mutant of GroupBySignature: records with an empty signature are dropped
RECURSIVE GroupBySignature_SkipEmpty(_, _, _, _)
GroupBySignature_SkipEmpty(h, techs, i, signature_map) ==
    IF i > Len(techs) THEN signature_map
    ELSE LET sig == compute_signature(h[techs[i]]).value
             at == {j \in 1..Len(signature_map) : signature_map[j].sig = sig}
             map1 == IF at = {}
                     THEN Append(signature_map, [sig |-> sig, tech_list |-> <<>>])
                     ELSE signature_map
             j == IF at = {} THEN Len(map1) ELSE CHOOSE x \in at : TRUE
         IN  GroupBySignature_SkipEmpty(h, techs, i + 1,
                 IF sig = <<>> THEN signature_map
                 ELSE [map1 EXCEPT ![j].tech_list = Append(@, techs[i])])

\* the loop "Group by signature"
RECURSIVE GroupBySignature(_, _, _, _)
GroupBySignature(h, techs, i, signature_map) ==
    IF i > Len(techs) THEN signature_map
    ELSE LET sig == compute_signature(h[techs[i]]).value
             at == MapIndex(signature_map, sig)
             map1 == IF at = 0
                     THEN Append(signature_map, [sig |-> sig, tech_list |-> <<>>])
                     ELSE signature_map
             j == IF at = 0 THEN Len(map1) ELSE at
         IN  GroupBySignature(h, techs, i + 1,
                 [map1 EXCEPT ![j].tech_list = Append(@, techs[i])])

\* what the second loop does with one group
SelectGroup(h, tech_list) ==
    IF Len(tech_list) = 1
    THEN [heap |-> h, primary |-> tech_list[1]]
    ELSE merge_techniques(h, tech_list)

\* mutant of SelectBest: each selected record is put in front of the others
RECURSIVE SelectBest_Prepend(_, _, _, _)
SelectBest_Prepend(h, signature_map, k, out) ==
    IF k > Len(signature_map) THEN [heap |-> h, out |-> out]
    ELSE LET tech_list == signature_map[k].tech_list
             m == IF Len(tech_list) = 1
                  THEN [heap |-> h, primary |-> tech_list[1]]
                  ELSE merge_techniques(h, tech_list)
         IN  SelectBest_Prepend(m.heap, signature_map, k + 1, <<m.primary>> \o out)

\* the loop "For each signature, select best version"
RECURSIVE SelectBest(_, _, _, _)
SelectBest(h, signature_map, k, out) ==
    IF k > Len(signature_map) THEN [heap |-> h, out |-> out]
    ELSE LET m == SelectGroup(h, signature_map[k].tech_list)
         IN  SelectBest(m.heap, signature_map, k + 1, Append(out, m.primary))

\* deduplicate_techniques(techniques): the returned list and the heap it leaves
deduplicate_techniques(h, techs) ==
    IF \E i \in 1..Len(techs) : compute_signature(h[techs[i]]).raised
    THEN [raised |-> TRUE, heap |-> h, out |-> <<>>]
    ELSE LET r == SelectBest(h, GroupBySignature(h, techs, 1, <<>>), 1, <<>>)
         IN  [raised |-> FALSE, heap |-> r.heap, out |-> r.out]

\* a list value
PyList(items) == [type |-> "list", items |-> items]

\* a JSON object
PyDict(fields) == [type |-> "dict", fields |-> fields]

\* the source files read in another order: MITRE before security research
SOURCE_FILES_MitreSecond ==
    << [file |-> "microsoft-roles.json",
        source |-> "Microsoft Official Documentation"],
       [file |-> "mitre-attack.json",
        source |-> "MITRE ATT&CK Framework"],
       [file |-> "security-research.json",
        source |-> "Security Research Aggregation"] >>

\* the source files in the order load_all_sources reads them, each with the
\* source name its records are stamped with
SOURCE_FILES ==
    << [file |-> "microsoft-roles.json",
        source |-> "Microsoft Official Documentation"],
       [file |-> "security-research.json",
        source |-> "Security Research Aggregation"],
       [file |-> "mitre-attack.json",
        source |-> "MITRE ATT&CK Framework"] >>

FileNames == {SOURCE_FILES[k].file : k \in DOMAIN SOURCE_FILES}

\* a load block that opens the file without asking whether it exists
LoadSource_NoExistsCheck(file, source) ==
    IF file.kind \in {"missing", "malformed"}
    THEN [raised |-> TRUE,
          error |-> IF file.kind = "missing" THEN "FileNotFoundError"
                    ELSE "JSONDecodeError"]
    ELSE IF file.data.type # "dict"
    THEN [raised |-> TRUE, error |-> "AttributeError"]
    ELSE LET techs == Get(file.data.fields, "techniques", PyList(<<>>))
         IN  IF techs.type # "list"
             THEN [raised |-> TRUE, error |-> "TypeError"]
             ELSE [raised |-> FALSE,
                   loaded |-> [i \in 1..Len(techs.items) |->
                                  SetField(techs.items[i], "source", source)]]

\* one "Load ..." block of load_all_sources: a file that does not exist is
\* skipped; json.load raises on text that is no JSON; .get exists on a dict
\* only; the for loop needs an iterable
LoadSource(file, source) ==
    IF file.kind = "missing" THEN [raised |-> FALSE, loaded |-> <<>>]
    ELSE IF file.kind = "malformed"
    THEN [raised |-> TRUE, error |-> "JSONDecodeError"]
    ELSE IF file.data.type # "dict"
    THEN [raised |-> TRUE, error |-> "AttributeError"]
    ELSE LET techs == Get(file.data.fields, "techniques", PyList(<<>>))
         IN  IF techs.type # "list"
             THEN [raised |-> TRUE, error |-> "TypeError"]
             ELSE [raised |-> FALSE,
                   loaded |-> [i \in 1..Len(techs.items) |->
                                  SetField(techs.items[i], "source", source)]]

\* the blocks of load_all_sources one after the other: an exception leaves
\* the function at once
RECURSIVE LoadFrom(_, _, _)
LoadFrom(fs, k, all_techniques) ==
    IF k > Len(SOURCE_FILES) THEN [raised |-> FALSE, loaded |-> all_techniques]
    ELSE LET r == LoadSource(fs[SOURCE_FILES[k].file], SOURCE_FILES[k].source)
         IN  IF r.raised THEN r
             ELSE LoadFrom(fs, k + 1, all_techniques \o r.loaded)

\* load_all_sources(): the records loaded, each a new object
load_all_sources(fs) == LoadFrom(fs, 1, <<>>)

\* a loop body that sets `category` whether the record declares one or not
Categorized_Overwrite(tech) ==
    LET withCategory == SetField(tech, "category", "unknown")
    IN  IF "subcategory" \notin DOMAIN withCategory
        THEN SetField(withCategory, "subcategory", "general")
        ELSE withCategory

\* what the loop of categorize_techniques does to one record
Categorized(tech) ==
    LET withCategory == IF "category" \notin DOMAIN tech
                        THEN SetField(tech, "category", "unknown")
                        ELSE tech
    IN  IF "subcategory" \notin DOMAIN withCategory
        THEN SetField(withCategory, "subcategory", "general")
        ELSE withCategory

\* categorize_techniques(techniques): the list is returned as given, its
\* records updated
categorize_techniques(h, techs) ==
    LET members == {techs[i] : i \in 1..Len(techs)}
    IN  [heap |-> [r \in 1..Len(h) |->
                      IF r \in members THEN Categorized(h[r]) ELSE h[r]],
         out |-> techs]

\* a document whose count is that of the records loaded, merged or not
save_results_CountsLoaded(h, techs) ==
    [written |-> TRUE,
     deduplication_complete |-> TRUE,
     total_techniques |-> Len(h),
     techniques |-> [i \in 1..Len(techs) |-> h[techs[i]]]]

\* the document save_results dumps: the records as they are at that moment
save_results(h, techs) ==
    [written |-> TRUE,
     deduplication_complete |-> TRUE,
     total_techniques |-> Len(techs),
     techniques |-> [i \in 1..Len(techs) |-> h[techs[i]]]]

\* no document in the output directory
NoOutput == [written |-> FALSE]

----------------------------------------------------------------------------
(* MarkdownGenerator *)

ID_RANGES ==
    [c \in {"directory-roles", "graph-permissions", "rbac", "cross-domain"} |->
        CASE c = "directory-roles" -> <<1, 99>>
          [] c = "graph-permissions" -> <<100, 199>>
          [] c = "rbac" -> <<200, 299>>
          [] c = "cross-domain" -> <<300, 399>>]

DigitChar(d) ==
    CASE d = 0 -> "0" [] d = 1 -> "1" [] d = 2 -> "2" [] d = 3 -> "3"
      [] d = 4 -> "4" [] d = 5 -> "5" [] d = 6 -> "6" [] d = 7 -> "7"
      [] d = 8 -> "8" [] d = 9 -> "9"

\* the decimal digits of n >= 0
RECURSIVE Decimal(_)
Decimal(n) ==
    IF n < 10 THEN <<DigitChar(n)>>
    ELSE Append(Decimal(n \div 10), DigitChar(n % 10))

\* format spec 03d: zero-padded on the left to a width of at least 3
RECURSIVE ZeroPad3(_)
ZeroPad3(digits) ==
    IF Len(digits) >= 3 THEN digits ELSE ZeroPad3(<<"0">> \o digits)

\* f"TECH-{idx:03d}"
TechId(idx) == <<"T", "E", "C", "H", "-">> \o ZeroPad3(Decimal(idx))

\* load_techniques(): the records of the `techniques` array of the document,
\* each a new object; none when the document has no such key
load_techniques(document) ==
    IF "techniques" \in DOMAIN document THEN document["techniques"] ELSE <<>>

\* the loop "Group by category": by_category as the insertion-ordered dict it
\* is, one entry per category in the order first seen, each with its records
\* in input order
GroupByCategory(h, techs) ==
    LET cat == [i \in 1..Len(techs) |->
                   Get(h[techs[i]], "category", "unknown")] \o <<>>
        cats == {cat[i] : i \in 1..Len(techs)}
        first == [c \in cats |-> CHOOSE i \in 1..Len(techs) :
                                     /\ cat[i] = c
                                     /\ \A j \in 1..(i - 1) : cat[j] # c]
        Before(c) == {d \in cats : first[d] < first[c]}
    IN  [k \in 1..Cardinality(cats) |->
            LET c == CHOOSE d \in cats : Cardinality(Before(d)) = k - 1
            IN  [category |-> c,
                 tech_list |-> SelectSeq(techs,
                     LAMBDA r : Get(h[r], "category", "unknown") = c)]] \o <<>>

\* mutant of EnumerateIds: the numbers stop at the end of the category's range
EnumerateIds_Clamped(h, tech_list, start_id, end_id) ==
    LET members == {tech_list[k] : k \in 1..Len(tech_list)}
        Idx(r) == start_id + (CHOOSE k \in 1..Len(tech_list) : tech_list[k] = r) - 1
    IN  [r \in 1..Len(h) |->
            IF r \notin members THEN h[r]
            ELSE SetField(h[r], "id",
                     TechId(IF Idx(r) > end_id THEN end_id ELSE Idx(r)))] \o <<>>

\* a numbering that goes on after the ids the records already carry
EnumerateIds_AfterExisting(h, tech_list, start_id, end_id) ==
    LET members == {tech_list[k] : k \in 1..Len(tech_list)}
        taken == Cardinality({r \in members : "id" \in DOMAIN h[r]})
        Idx(r) == start_id + taken
                  + (CHOOSE k \in 1..Len(tech_list) : tech_list[k] = r) - 1
    IN  [r \in 1..Len(h) |->
            IF r \notin members THEN h[r]
            ELSE SetField(h[r], "id", TechId(Idx(r)))] \o <<>>

\* for idx, tech in enumerate(tech_list, start=start_id): tech['id'] = ...
\* (end_id is unpacked and never read)
EnumerateIds(h, tech_list, start_id, end_id) ==
    LET members == {tech_list[k] : k \in 1..Len(tech_list)}
        Idx(r) == start_id + (CHOOSE k \in 1..Len(tech_list) : tech_list[k] = r) - 1
    IN  [r \in 1..Len(h) |->
            IF r \notin members THEN h[r]
            ELSE SetField(h[r], "id", TechId(Idx(r)))] \o <<>>

\* mutant of AssignInRanges: a category without a range is numbered from 0
RECURSIVE AssignInRanges_DefaultRange(_, _, _)
AssignInRanges_DefaultRange(h, by_category, k) ==
    IF k > Len(by_category) THEN h
    ELSE LET category == by_category[k].category
             range == IF category \in DOMAIN ID_RANGES
                      THEN ID_RANGES[category] ELSE <<0, 0>>
         IN  AssignInRanges_DefaultRange(
                 EnumerateIds(h, by_category[k].tech_list, range[1], range[2]),
                 by_category, k + 1)

\* the loop "Assign IDs within each category's range"
RECURSIVE AssignInRanges(_, _, _)
AssignInRanges(h, by_category, k) ==
    IF k > Len(by_category) THEN h
    ELSE LET category == by_category[k].category
         IN  IF category \notin DOMAIN ID_RANGES
             THEN AssignInRanges(h, by_category, k + 1)
             ELSE AssignInRanges(
                      EnumerateIds(h, by_category[k].tech_list,
                          ID_RANGES[category][1], ID_RANGES[category][2]),
                      by_category, k + 1)

\* assign_ids(techniques): the list is returned as given, its records updated
assign_ids(h, techs) ==
    [heap |-> AssignInRanges(h, GroupByCategory(h, techs), 1),
     out |-> techs]

\* the characters \w matches among those of the names
WordChars == {"a", "b", "A", "B", "_"} \cup {DigitChar(d) : d \in 0..9}

\* the characters of the class [-\s]
Separators == {"-"} \cup Whitespace

\* text without the separators it starts with
RECURSIVE SkipSeparators(_)
SkipSeparators(text) ==
    IF text # <<>> /\ Head(text) \in Separators
    THEN SkipSeparators(Tail(text))
    ELSE text

\* re.sub(r'[-\s]+', '-', text)
RECURSIVE CollapseSeparators(_)
CollapseSeparators(text) ==
    IF text = <<>> THEN <<>>
    ELSE IF Head(text) \in Separators
    THEN <<"-">> \o CollapseSeparators(SkipSeparators(text))
    ELSE <<Head(text)>> \o CollapseSeparators(Tail(text))

\* text.strip('-')
RECURSIVE StripDashes(_)
StripDashes(text) ==
    IF text # <<>> /\ Head(text) = "-" THEN StripDashes(Tail(text))
    ELSE IF text # <<>> /\ text[Len(text)] = "-"
    THEN StripDashes(SubSeq(text, 1, Len(text) - 1))
    ELSE text

\* slugify(text)
slugify(text) ==
    LET lowered == str_lower(text)
        kept == SelectSeq(lowered, LAMBDA c : c \in WordChars \cup Separators)
    IN  StripDashes(CollapseSeparators(kept))

\* generate_filename(technique): f"{tech_id}-{slug}.md"
generate_filename(technique) ==
    LET tech_id == Get(technique, "id", <<"T", "E", "C", "H", "-", "0", "0", "0">>)
        name == Get(technique, "name",
                    PyStr(<<"u", "n", "n", "a", "m", "e", "d">>))
    IN  tech_id \o <<"-">> \o slugify(name.chars) \o <<".", "m", "d">>

\* the path write_markdown_file opens: techniques_dir / category / filename
file_path(technique) ==
    <<Get(technique, "category", "unknown"), generate_filename(technique)>>

\* write_markdown_file(technique) on the directory d: open(file_path, 'w')
\* replaces a file that is there
write_markdown_file(d, technique) ==
    {e \in d : e.path # file_path(technique)}
    \cup {[path |-> file_path(technique), technique |-> technique]}

\* the loop of run over the techniques, from the i-th on
RECURSIVE WriteAll(_, _, _, _)
WriteAll(d, h, techs, i) ==
    IF i > Len(techs) THEN d
    ELSE WriteAll(write_markdown_file(d, h[techs[i]]), h, techs, i + 1)

----------------------------------------------------------------------------
(* Inputs of the deduplication runs: records as the collectors and the     *)
(* loader produce them, `name` a string when present (spec section 3).     *)

Absent == [present |-> FALSE]
Present(v) == [present |-> TRUE, value |-> v]

NameChoices ==
    { Absent,
      Present(PyStr(<<"a">>)),
      Present(PyStr(<<"A", " ">>)),
      Present(PyStr(<<"b">>)) }

SourceChoices ==
    { Absent,
      Present("Microsoft Official Documentation"),
      Present("Security Research Aggregation"),
      Present("Blog") }

\* the i-th record of an input: its description tells the records apart
MkTechnique(i, name, source) ==
    [k \in {"description"} \cup (IF name.present THEN {"name"} ELSE {})
                           \cup (IF source.present THEN {"source"} ELSE {}) |->
        CASE k = "description" -> i
          [] k = "name" -> name.value
          [] k = "source" -> source.value]

\* sys.exit has not been called
NoExit == [exited |-> FALSE]

\* the command was given its two arguments and TechniqueDeduplicator is
\* constructed: the output directory exists; no markdown file is written
Constructed ==
    /\ argc = 2
    /\ exit_code = NoExit
    /\ stdout = <<>>
    /\ output_dir = TRUE
    /\ disk = {}

\* no run of the workflow is in progress
NoRun ==
    /\ files = [f \in FileNames |-> [kind |-> "missing"]]
    /\ categorized = <<>>
    /\ output = NoOutput

\* a list of n records, one per choice of name and source
DedupInput(n, names, sources) ==
    [i \in 1..n |-> MkTechnique(i, names[i], sources[i])]

Init ==
    /\ \E n \in 0..MaxLen :
         \E names \in [1..n -> NameChoices], sources \in [1..n -> SourceChoices] :
            heap = DedupInput(n, names, sources)
    /\ orig = heap
    /\ prev = heap
    /\ techniques = [i \in 1..Len(heap) |-> i]
    /\ deduplicated = <<>>
    /\ again = <<>>
    /\ sig_calls = <<>>
    /\ outcome = "ok"
    /\ NoRun
    /\ Constructed
    /\ pc = "loaded"

\* deduplicated = self.deduplicate_techniques(techniques)
Deduplicate ==
    /\ pc = "loaded"
    /\ LET r == deduplicate_techniques(heap, techniques)
       IN  /\ heap' = r.heap
           /\ deduplicated' = r.out
           /\ outcome' = IF r.raised THEN "AttributeError" ELSE "ok"
           /\ pc' = IF r.raised THEN "raised" ELSE "deduplicated"
    /\ prev' = heap
    /\ UNCHANGED <<orig, techniques, again, sig_calls>>
    /\ UNCHANGED runVars
    /\ UNCHANGED envVars

\* deduplicate_techniques applied to its own result
DeduplicateAgain ==
    /\ pc = "deduplicated"
    /\ LET r == deduplicate_techniques(heap, deduplicated)
       IN  /\ heap' = r.heap
           /\ again' = r.out
           /\ outcome' = IF r.raised THEN "AttributeError" ELSE "ok"
           /\ pc' = IF r.raised THEN "raised" ELSE "deduplicated_again"
    /\ prev' = heap
    /\ UNCHANGED <<orig, techniques, deduplicated, sig_calls>>
    /\ UNCHANGED runVars
    /\ UNCHANGED envVars

Next == Deduplicate \/ DeduplicateAgain

Spec == Init /\ [][Next]_vars

----------------------------------------------------------------------------
(* compute_signature on single records of any shape *)

Alphabet == {"a", "A", "b", " "}

\* `name` absent, null, a number, or any string over Alphabet up to MaxNameLen
SigNameChoices ==
    {Absent, Present(PyNone), Present(PyInt(7))} \cup
    UNION { {Present(PyStr(chars)) : chars \in [1..n -> Alphabet]} :
            n \in 0..MaxNameLen }

InitSig ==
    /\ \E name \in SigNameChoices :
          heap = <<MkTechnique(1, name, Absent)>>
    /\ orig = heap
    /\ prev = heap
    /\ techniques = <<1>>
    /\ deduplicated = <<>>
    /\ again = <<>>
    /\ sig_calls = <<>>
    /\ outcome = "ok"
    /\ NoRun
    /\ Constructed
    /\ pc = "loaded"

\* sig = self.compute_signature(tech)
ComputeSignature ==
    /\ pc \in {"loaded", "signed"}
    /\ Len(sig_calls) < MaxCalls
    /\ LET r == compute_signature(heap[techniques[1]])
       IN  /\ sig_calls' = Append(sig_calls, r)
           /\ outcome' = IF r.raised THEN r.error ELSE "ok"
    /\ pc' = "signed"
    /\ prev' = heap
    /\ UNCHANGED <<heap, orig, techniques, deduplicated, again>>
    /\ UNCHANGED runVars
    /\ UNCHANGED envVars

NextSig == ComputeSignature

SpecSig == InitSig /\ [][NextSig]_vars

----------------------------------------------------------------------------
(* assign_ids on lists of categorized records *)

CategoryChoices ==
    {Absent, Present("misc")} \cup {Present(c) : c \in DOMAIN ID_RANGES}

BulkLens == {0, MaxBulk}

\* the i-th record of an assign_ids input
MkCategorized(i, category) ==
    [k \in {"description"} \cup (IF category.present THEN {"category"} ELSE {}) |->
        CASE k = "description" -> i
          [] k = "category" -> category.value]

\* b records of category c, then n records of the categories chosen
IdsInput(b, c, n, categories) ==
    [i \in 1..(b + n) |->
        IF i <= b THEN MkCategorized(i, Present(c))
        ELSE MkCategorized(i, categories[i - b])]

InitIds ==
    /\ \E b \in BulkLens, c \in DOMAIN ID_RANGES, n \in 0..MaxMixed :
          \E categories \in [1..n -> CategoryChoices] :
              heap = IdsInput(b, c, n, categories)
    /\ orig = heap
    /\ prev = heap
    /\ techniques = [i \in 1..Len(heap) |-> i]
    /\ deduplicated = <<>>
    /\ again = <<>>
    /\ sig_calls = <<>>
    /\ outcome = "ok"
    /\ NoRun
    /\ Constructed
    /\ pc = "loaded"

\* techniques = self.assign_ids(techniques)
AssignIds ==
    /\ pc = "loaded"
    /\ LET r == assign_ids(heap, techniques)
       IN  /\ heap' = r.heap
           /\ techniques' = r.out
    /\ pc' = "assigned"
    /\ prev' = heap
    /\ UNCHANGED <<orig, deduplicated, again, sig_calls, outcome>>
    /\ UNCHANGED runVars
    /\ UNCHANGED envVars

NextIds == AssignIds

SpecIds == InitIds /\ [][NextIds]_vars

\* lists of up to MaxMixed records of freely chosen categories
InitAgain ==
    /\ \E n \in 0..MaxMixed :
          \E categories \in [1..n -> CategoryChoices] :
              heap = [i \in 1..n |-> MkCategorized(i, categories[i])]
    /\ orig = heap
    /\ prev = heap
    /\ techniques = [i \in 1..Len(heap) |-> i]
    /\ deduplicated = <<>>
    /\ again = <<>>
    /\ sig_calls = <<>>
    /\ outcome = "ok"
    /\ NoRun
    /\ Constructed
    /\ pc = "loaded"

\* assign_ids called on the list it returned
AssignAgain ==
    /\ pc = "assigned"
    /\ LET r == assign_ids(heap, techniques)
       IN  /\ heap' = r.heap
           /\ again' = r.out
    /\ pc' = "assigned_again"
    /\ prev' = heap
    /\ UNCHANGED <<orig, techniques, deduplicated, sig_calls, outcome>>
    /\ UNCHANGED runVars
    /\ UNCHANGED envVars

NextAgain == AssignIds \/ AssignAgain

SpecAgain == InitAgain /\ [][NextAgain]_vars

----------------------------------------------------------------------------
(* assign_ids on one category of any size *)

FillLens == (0..MaxShort) \cup {MaxFill}

InitFill ==
    /\ \E b \in FillLens, c \in DOMAIN ID_RANGES :
          heap = IdsInput(b, c, 0, <<>>)
    /\ orig = heap
    /\ prev = heap
    /\ techniques = [i \in 1..Len(heap) |-> i]
    /\ deduplicated = <<>>
    /\ again = <<>>
    /\ sig_calls = <<>>
    /\ outcome = "ok"
    /\ NoRun
    /\ Constructed
    /\ pc = "loaded"

SpecFill == InitFill /\ [][NextIds]_vars

----------------------------------------------------------------------------
(* TechniqueDeduplicator.run on a raw-data directory *)

\* what a source file without records may be: absent, not JSON, JSON that is
\* no object, an object without `techniques`, with a null or with an empty one
EmptyFiles ==
    { [kind |-> "missing"],
      [kind |-> "malformed"],
      [kind |-> "json", data |-> PyList(<<>>)],
      [kind |-> "json", data |-> PyDict([k \in {"collected_at"} |-> 1])],
      [kind |-> "json", data |-> PyDict([k \in {"techniques"} |-> PyNone])],
      [kind |-> "json", data |-> PyDict([k \in {"techniques"} |-> PyList(<<>>)])] }

FileNameChoices == {Absent, Present(PyStr(<<"a">>)), Present(PyStr(<<"b">>))}

FileSourceChoices == {Absent, Present("Blog")}

\* a source file holding n >= 1 records; the description tells them apart
FileOfRecords(k, n, names, sources) ==
    [kind |-> "json",
     data |-> PyDict([f \in {"techniques"} |->
                 PyList([i \in 1..n |->
                     MkTechnique(10 * k + i, names[i], sources[i])])])]

\* the files a source file of n records may be
FilesOf(k, n) ==
    IF n = 0 THEN EmptyFiles
    ELSE {FileOfRecords(k, n, names, sources) :
              names \in [1..n -> FileNameChoices],
              sources \in [1..n -> FileSourceChoices]}

InitRun ==
    /\ \E n1 \in 0..MaxRecords :
         \E n2 \in 0..(MaxRecords - n1) :
           \E n3 \in 0..(MaxRecords - n1 - n2) :
             \E f1 \in FilesOf(1, n1), f2 \in FilesOf(2, n2), f3 \in FilesOf(3, n3) :
                files = [f \in FileNames |->
                            CASE f = SOURCE_FILES[1].file -> f1
                              [] f = SOURCE_FILES[2].file -> f2
                              [] f = SOURCE_FILES[3].file -> f3]
    /\ heap = <<>>
    /\ orig = <<>>
    /\ prev = <<>>
    /\ techniques = <<>>
    /\ deduplicated = <<>>
    /\ again = <<>>
    /\ sig_calls = <<>>
    /\ categorized = <<>>
    /\ output = NoOutput
    /\ outcome = "ok"
    /\ Constructed
    /\ pc = "start"

\* techniques = self.load_all_sources()
LoadAllSources ==
    /\ pc = "start"
    /\ LET r == load_all_sources(files)
       IN  IF r.raised
           THEN /\ outcome' = r.error
                /\ pc' = "raised"
                /\ UNCHANGED <<heap, techniques>>
           ELSE /\ heap' = r.loaded
                /\ techniques' = [i \in 1..Len(r.loaded) |-> i]
                /\ outcome' = "ok"
                /\ pc' = "loaded"
    /\ prev' = heap
    /\ UNCHANGED <<orig, deduplicated, again, sig_calls, files, categorized,
                   output>>
    /\ UNCHANGED envVars

\* a categorize stage that dumps the document as soon as it is through
Categorize_WritesOutput ==
    /\ pc = "deduplicated"
    /\ LET r == categorize_techniques(heap, deduplicated)
       IN  /\ heap' = r.heap
           /\ categorized' = r.out
           /\ output' = save_results(r.heap, r.out)
    /\ pc' = "categorized"
    /\ prev' = heap
    /\ UNCHANGED <<orig, techniques, deduplicated, again, sig_calls, outcome,
                   files>>
    /\ UNCHANGED envVars

\* categorized = self.categorize_techniques(deduplicated)
Categorize ==
    /\ pc = "deduplicated"
    /\ LET r == categorize_techniques(heap, deduplicated)
       IN  /\ heap' = r.heap
           /\ categorized' = r.out
    /\ pc' = "categorized"
    /\ prev' = heap
    /\ UNCHANGED <<orig, techniques, deduplicated, again, sig_calls, outcome,
                   files, output>>
    /\ UNCHANGED envVars

\* self.save_results(categorized)
SaveResults ==
    /\ pc = "categorized"
    /\ output' = save_results(heap, categorized)
    /\ pc' = "done"
    /\ prev' = heap
    /\ UNCHANGED <<heap, orig, techniques, deduplicated, again, sig_calls,
                   outcome, files, categorized>>
    /\ UNCHANGED envVars

NextRun == LoadAllSources \/ Deduplicate \/ Categorize \/ SaveResults

SpecRun == InitRun /\ [][NextRun]_vars

----------------------------------------------------------------------------
(* main of deduplicate.py *)

Usage == "Usage: deduplicate.py <raw_data_directory> <output_directory>"

InitMain ==
    /\ argc \in 0..MaxArgs
    /\ \E n1 \in 0..MaxCliRecords :
         \E n2 \in 0..(MaxCliRecords - n1) :
           \E n3 \in 0..(MaxCliRecords - n1 - n2) :
             \E f1 \in FilesOf(1, n1), f2 \in FilesOf(2, n2), f3 \in FilesOf(3, n3) :
                files = [f \in FileNames |->
                            CASE f = SOURCE_FILES[1].file -> f1
                              [] f = SOURCE_FILES[2].file -> f2
                              [] f = SOURCE_FILES[3].file -> f3]
    /\ heap = <<>>
    /\ orig = <<>>
    /\ prev = <<>>
    /\ techniques = <<>>
    /\ deduplicated = <<>>
    /\ again = <<>>
    /\ sig_calls = <<>>
    /\ categorized = <<>>
    /\ output = NoOutput
    /\ outcome = "ok"
    /\ exit_code = NoExit
    /\ stdout = <<>>
    /\ output_dir = FALSE
    /\ disk = {}
    /\ pc = "main"

\* a main that constructs the deduplicator before it looks at the arguments
Main_ConstructsFirst ==
    /\ pc = "main"
    /\ output_dir' = TRUE
    /\ IF argc + 1 # 3
       THEN /\ stdout' = Append(stdout, Usage)
            /\ exit_code' = [exited |-> TRUE, status |-> 1]
            /\ pc' = "exited"
       ELSE /\ pc' = "start"
            /\ UNCHANGED <<stdout, exit_code>>
    /\ UNCHANGED <<heap, orig, prev, techniques, deduplicated, again, sig_calls,
                   outcome, files, categorized, output, argc, disk>>

\* main() up to the call of run: the argument check, then
\* TechniqueDeduplicator(raw_data_dir, output_dir), which creates output_dir
Main ==
    /\ pc = "main"
    /\ IF argc + 1 # 3
       THEN /\ stdout' = Append(stdout, Usage)
            /\ exit_code' = [exited |-> TRUE, status |-> 1]
            /\ pc' = "exited"
            /\ UNCHANGED output_dir
       ELSE /\ output_dir' = TRUE
            /\ pc' = "start"
            /\ UNCHANGED <<stdout, exit_code>>
    /\ UNCHANGED <<heap, orig, prev, techniques, deduplicated, again, sig_calls,
                   outcome, files, categorized, output, argc, disk>>

NextMain == Main \/ LoadAllSources \/ Deduplicate \/ Categorize \/ SaveResults

SpecMain == InitMain /\ [][NextMain]_vars

----------------------------------------------------------------------------
(* the deduplicator followed by the markdown generator's id assignment *)

PipelineNameChoices == {Present(PyStr(<<"a">>)), Present(PyStr(<<"b">>))}

PipelineSourceChoices ==
    {Present("Microsoft Official Documentation"),
     Present("Security Research Aggregation")}

PipelineCategoryChoices == {Absent, Present("rbac")}

\* a loaded record: stamped with its source, with or without a category
MkLoaded(i, name, source, category) ==
    [k \in {"description", "name", "source"}
           \cup (IF category.present THEN {"category"} ELSE {}) |->
        CASE k = "description" -> i
          [] k = "name" -> name.value
          [] k = "source" -> source.value
          [] k = "category" -> category.value]

InitPipeline ==
    /\ \E n \in 0..MaxLen :
         \E names \in [1..n -> PipelineNameChoices],
            sources \in [1..n -> PipelineSourceChoices],
            categories \in [1..n -> PipelineCategoryChoices] :
            heap = [i \in 1..n |-> MkLoaded(i, names[i], sources[i], categories[i])]
    /\ orig = heap
    /\ prev = heap
    /\ techniques = [i \in 1..Len(heap) |-> i]
    /\ deduplicated = <<>>
    /\ again = <<>>
    /\ sig_calls = <<>>
    /\ outcome = "ok"
    /\ NoRun
    /\ Constructed
    /\ pc = "loaded"

\* MarkdownGenerator.run up to assign_ids: the records are read from the
\* document, so the generator works on objects of its own
LoadAndAssign ==
    /\ pc = "done"
    /\ LET loaded == load_techniques(output)
           r == assign_ids(loaded, [i \in 1..Len(loaded) |-> i])
       IN  /\ heap' = r.heap
           /\ techniques' = r.out
    /\ pc' = "identified"
    /\ prev' = heap
    /\ UNCHANGED <<orig, deduplicated, again, sig_calls, outcome>>
    /\ UNCHANGED runVars
    /\ UNCHANGED envVars

NextPipeline == Deduplicate \/ Categorize \/ SaveResults \/ LoadAndAssign

SpecPipeline == InitPipeline /\ [][NextPipeline]_vars

----------------------------------------------------------------------------
(* MarkdownGenerator.run on a deduplicated document *)

\* names of pairwise distinct signatures, some of them with the same slug
MdNameChoices ==
    { PyStr(<<"a">>), PyStr(<<"a", "!">>), PyStr(<<"A", " ", "b">>),
      PyStr(<<"a", "-", "b">>) }

MdCategoryChoices == {"unknown", "rbac"}

\* a record of the document: named and categorized
MkDocumented(i, name, category) ==
    [k \in {"description", "name", "category"} |->
        CASE k = "description" -> i
          [] k = "name" -> name
          [] k = "category" -> category]

\* the documents the deduplicator can have written: no two records of one
\* signature
InitMd ==
    /\ \E n \in 0..MaxLen :
         \E names \in [1..n -> MdNameChoices],
            categories \in [1..n -> MdCategoryChoices] :
            /\ \A i, j \in 1..n : i # j => names[i] # names[j]
            /\ heap = [i \in 1..n |-> MkDocumented(i, names[i], categories[i])]
    /\ orig = heap
    /\ prev = heap
    /\ techniques = [i \in 1..Len(heap) |-> i]
    /\ deduplicated = <<>>
    /\ again = <<>>
    /\ sig_calls = <<>>
    /\ outcome = "ok"
    /\ NoRun
    /\ Constructed
    /\ pc = "loaded"

\* for tech in techniques: file_path = self.write_markdown_file(tech)
WriteMarkdownFiles ==
    /\ pc = "assigned"
    /\ disk' = WriteAll(disk, heap, techniques, 1)
    /\ pc' = "written"
    /\ prev' = heap
    /\ UNCHANGED <<heap, orig, techniques, deduplicated, again, sig_calls,
                   outcome, files, categorized, output, argc, exit_code,
                   stdout, output_dir>>

NextMd == AssignIds \/ WriteMarkdownFiles

SpecMd == InitMd /\ [][NextMd]_vars

----------------------------------------------------------------------------
(* categorize_techniques on lists of records with and without categories *)

DeclaredCategoryChoices == {Absent, Present("rbac"), Present("misc")}

SubcategoryChoices == {Absent, Present("roles")}

\* the i-th record of a categorize_techniques input
MkDeclared(i, category, subcategory) ==
    [k \in {"description"}
           \cup (IF category.present THEN {"category"} ELSE {})
           \cup (IF subcategory.present THEN {"subcategory"} ELSE {}) |->
        CASE k = "description" -> i
          [] k = "category" -> category.value
          [] k = "subcategory" -> subcategory.value]

InitCat ==
    /\ \E n \in 0..MaxLen :
         \E categories \in [1..n -> DeclaredCategoryChoices],
            subcategories \in [1..n -> SubcategoryChoices] :
            /\ heap = [i \in 1..n |-> MkDeclared(i, categories[i], subcategories[i])]
            /\ deduplicated = [i \in 1..n |-> i]
    /\ orig = heap
    /\ prev = heap
    /\ techniques = <<>>
    /\ again = <<>>
    /\ sig_calls = <<>>
    /\ outcome = "ok"
    /\ NoRun
    /\ Constructed
    /\ pc = "deduplicated"

\* categorize_techniques called on the list it returned
CategorizeAgain ==
    /\ pc = "categorized"
    /\ LET r == categorize_techniques(heap, categorized)
       IN  /\ heap' = r.heap
           /\ again' = r.out
    /\ pc' = "categorized_again"
    /\ prev' = heap
    /\ UNCHANGED <<orig, techniques, deduplicated, sig_calls, outcome, files,
                   categorized, output>>
    /\ UNCHANGED envVars

NextCat == Categorize \/ CategorizeAgain

SpecCat == InitCat /\ [][NextCat]_vars

----------------------------------------------------------------------------
(* deduplicate_techniques on records without a name *)

\* no name, the empty name, a name of one space, and a proper name
NamelessChoices ==
    {Absent, Present(PyStr(<<>>)), Present(PyStr(<<" ">>)),
     Present(PyStr(<<"a">>))}

NamelessSourceChoices == {Absent, Present("Microsoft Official Documentation")}

InitNameless ==
    /\ \E n \in 0..MaxLen :
         \E names \in [1..n -> NamelessChoices],
            sources \in [1..n -> NamelessSourceChoices] :
            heap = DedupInput(n, names, sources)
    /\ orig = heap
    /\ prev = heap
    /\ techniques = [i \in 1..Len(heap) |-> i]
    /\ deduplicated = <<>>
    /\ again = <<>>
    /\ sig_calls = <<>>
    /\ outcome = "ok"
    /\ NoRun
    /\ Constructed
    /\ pc = "loaded"

SpecNameless == InitNameless /\ [][Next]_vars

----------------------------------------------------------------------------
(* Properties of deduplicate_techniques and merge_techniques *)

BookKeeping == {"sources", "source_count"}

AfterDedup == pc = "deduplicated"

\* the input records, by reference
Refs == 1..Len(orig)

\* signature of input record r (its lower-cased, trimmed name)
Sig(r) == compute_signature(orig[r]).value

Sigs == {Sig(r) : r \in Refs}

\* the records sharing signature s
GroupOf(s) == {r \in Refs : Sig(r) = s}

\* positions of the output that hold a record of signature s
OutputsOf(s) == {i \in 1..Len(deduplicated) : deduplicated[i] \in GroupOf(s)}

\* the name under which a record is cited: its source, 'Unknown' when it has none
SourceName(t) == IF "source" \in DOMAIN t THEN t.source ELSE "Unknown"

\* authority of a record's source: unknown or missing source = 0
AuthorityOf(t) ==
    IF "source" \in DOMAIN t /\ t.source \in DOMAIN SOURCE_AUTHORITY
    THEN SOURCE_AUTHORITY[t.source]
    ELSE 0

\* t keeps every field of t0 with its value, gaining at most the bookkeeping fields
SameFields(t, t0) ==
    /\ DOMAIN t \ BookKeeping = DOMAIN t0 \ BookKeeping
    /\ \A k \in DOMAIN t0 \ BookKeeping : t[k] = t0[k]

\* C1: every group of two or more records with equal signatures yields exactly
\* one output record; its `sources` has exactly one {name, authority} entry per
\* distinct source name of the group, in descending order of authority, and
\* `source_count` is the length of that list.
C1_MergedGroupCitesAllSources ==
    AfterDedup =>
        \A s \in Sigs :
            Cardinality(GroupOf(s)) >= 2 =>
                /\ Cardinality(OutputsOf(s)) = 1
                /\ LET t == heap[deduplicated[CHOOSE i \in OutputsOf(s) : TRUE]]
                       names == {SourceName(orig[r]) : r \in GroupOf(s)}
                   IN  /\ BookKeeping \subseteq DOMAIN t
                       /\ {t.sources[j].name : j \in 1..Len(t.sources)} = names
                       /\ Len(t.sources) = Cardinality(names)
                       /\ \A j \in 1..Len(t.sources) :
                              /\ DOMAIN t.sources[j] = {"name", "authority"}
                              /\ t.sources[j].authority =
                                     Authority(t.sources[j].name)
                       /\ \A j, k \in 1..Len(t.sources) :
                              j < k => t.sources[j].authority >=
                                           t.sources[k].authority
                       /\ t.source_count = Len(t.sources)

\* a group of three records citing two source names, the less authoritative first
C1_Witness ==
    /\ AfterDedup
    /\ \E s \in Sigs :
          /\ Cardinality(GroupOf(s)) = 3
          /\ Cardinality({SourceName(orig[r]) : r \in GroupOf(s)}) = 2
          /\ \E r1, r2 \in GroupOf(s) :
                r1 < r2 /\ AuthorityOf(orig[r1]) < AuthorityOf(orig[r2])

\* C2: the record a group of two or more is merged into is a member of the
\* group whose authority is the group's maximum, and each of its fields other
\* than `sources` and `source_count` has the value it had in that record.
C2_PrimaryHasMaxAuthority ==
    AfterDedup =>
        \A s \in Sigs :
            Cardinality(GroupOf(s)) >= 2 =>
                \A i \in OutputsOf(s) :
                    LET p == deduplicated[i]
                    IN  /\ p \in GroupOf(s)
                        /\ \A r \in GroupOf(s) :
                               AuthorityOf(orig[r]) <= AuthorityOf(orig[p])
                        /\ SameFields(heap[p], orig[p])

\* a group whose most authoritative record is not its first
C2_Witness ==
    /\ AfterDedup
    /\ \E s \in Sigs :
          /\ Cardinality(GroupOf(s)) >= 2
          /\ \E i \in OutputsOf(s) :
                \E r \in GroupOf(s) :
                    r < deduplicated[i] /\
                    AuthorityOf(orig[r]) < AuthorityOf(orig[deduplicated[i]])

\* C3: the record of every group of size 1 is emitted with
\* sources = [{name: its source, authority: lookup(its source)}] and
\* source_count = 1, so every output record carries a non-empty `sources`.
C3_SingletonStamped ==
    AfterDedup =>
        /\ \A s \in Sigs :
               Cardinality(GroupOf(s)) = 1 =>
                   \A i \in OutputsOf(s) :
                       LET t == heap[deduplicated[i]]
                       IN  /\ BookKeeping \subseteq DOMAIN t
                           /\ t.sources = << [name |-> SourceName(t),
                                              authority |-> AuthorityOf(t)] >>
                           /\ t.source_count = 1
        /\ \A i \in 1..Len(deduplicated) :
               /\ "sources" \in DOMAIN heap[deduplicated[i]]
               /\ heap[deduplicated[i]].sources # <<>>

\* C4: when all signatures are pairwise distinct the output is the input:
\* same count, same order, every field with its value; only `sources` and
\* `source_count` may have been added.
C4_DistinctNamesIdentity ==
    (AfterDedup /\ Cardinality(Sigs) = Len(orig)) =>
        /\ Len(deduplicated) = Len(techniques)
        /\ \A i \in 1..Len(techniques) :
               /\ deduplicated[i] = techniques[i]
               /\ SameFields(heap[techniques[i]], orig[techniques[i]])

\* three records with three different signatures
C4_Witness ==
    /\ AfterDedup
    /\ Len(orig) = 3
    /\ Cardinality(Sigs) = 3

\* C5: deduplicating the deduplicated list again gives the same records in the
\* same order with the same field values, `sources`/`source_count` aside.
C5_Idempotent ==
    pc = "deduplicated_again" =>
        /\ Len(again) = Len(deduplicated)
        /\ \A i \in 1..Len(deduplicated) :
               /\ again[i] = deduplicated[i]
               /\ SameFields(heap[again[i]], prev[again[i]])

\* the second application ran on a list of two records, one of them merged
C5_Witness ==
    /\ pc = "deduplicated_again"
    /\ Len(deduplicated) = 2
    /\ Len(techniques) = 3
    /\ deduplicated[1] > deduplicated[2]

\* sum of (group size - 1) over the signatures in S
RECURSIVE Excess(_)
Excess(S) ==
    IF S = {} THEN 0
    ELSE LET s == CHOOSE x \in S : TRUE
         IN  (Cardinality(GroupOf(s)) - 1) + Excess(S \ {s})

\* C6: the output has as many records as the input has distinct signatures,
\* never more than the input, no two of one signature; that is the input count
\* less (group size - 1) for each group.
C6_OneRecordPerSignature ==
    AfterDedup =>
        /\ Len(deduplicated) = Cardinality(Sigs)
        /\ Len(deduplicated) <= Len(techniques)
        /\ \A i, j \in 1..Len(deduplicated) :
               i # j => compute_signature(heap[deduplicated[i]]).value #
                        compute_signature(heap[deduplicated[j]]).value
        /\ Len(deduplicated) = Len(techniques) - Excess(Sigs)

\* three records, two of them colliding: 3 - 1 = 2 output records
C6_Witness ==
    /\ AfterDedup
    /\ Len(techniques) = 3
    /\ Cardinality(Sigs) = 2
    /\ Len(deduplicated) = 2

\* position in the input at which signature s first occurs
FirstSeen(s) ==
    CHOOSE i \in 1..Len(techniques) :
        /\ Sig(techniques[i]) = s
        /\ \A j \in 1..(i - 1) : Sig(techniques[j]) # s

\* C7: the output lists the signatures in the order of their first occurrence
\* in the input.
C7_FirstSeenOrder ==
    AfterDedup =>
        \A i, j \in 1..Len(deduplicated) :
            i < j => FirstSeen(Sig(deduplicated[i])) <
                     FirstSeen(Sig(deduplicated[j]))

\* the record emitted first stands behind the record emitted second in the
\* input: its signature was seen first, its most authoritative record last
C7_Witness ==
    /\ AfterDedup
    /\ Len(deduplicated) = 2
    /\ deduplicated[1] = 3
    /\ deduplicated[2] = 2

----------------------------------------------------------------------------
(* Properties of compute_signature *)

\* C8: compute_signature is pure and total: for every record, one whose `name`
\* is missing, null or not a string included, each call returns a string
\* without raising, every call on the same record returns the same, and a
\* missing or unparseable name gives the empty string.
C8_SignaturePureAndTotal ==
    \A c \in 1..Len(sig_calls) :
        /\ ~sig_calls[c].raised
        /\ sig_calls[c] = sig_calls[1]
        /\ ("name" \notin DOMAIN heap[1] \/ heap[1].name.type # "str")
               => sig_calls[c].value = <<>>

----------------------------------------------------------------------------
(* Properties of assign_ids *)

AfterAssign == pc = "assigned"

\* the category a record is filed under: 'unknown' when it has none
CategoryOf(t) == IF "category" \in DOMAIN t THEN t.category ELSE "unknown"

HasId(r) == "id" \in DOMAIN heap[r]

\* the number a string of decimal digits denotes
RECURSIVE DecimalValue(_)
DecimalValue(digits) ==
    IF digits = <<>> THEN 0
    ELSE 10 * DecimalValue(SubSeq(digits, 1, Len(digits) - 1)) +
         (CHOOSE d \in 0..9 : DigitChar(d) = digits[Len(digits)])

\* the sequence number in an id of the form TECH-<digits>
IdNumber(id) == DecimalValue(SubSeq(id, 6, Len(id)))

\* the category of every input record, by reference
Categories == [r \in 1..Len(orig) |-> CategoryOf(orig[r])] \o <<>>

\* the number in every record's id, by reference; -1 for a record without id
IdNumbers ==
    [r \in 1..Len(heap) |-> IF HasId(r) THEN IdNumber(heap[r].id) ELSE -1] \o <<>>

\* C9: after assign_ids no two records of the list carry the same id, within a
\* category or across categories, however many records a category has.
C9_IdsUniqueInCorpus ==
    AfterAssign =>
        \A r, q \in 1..Len(heap) :
            (r # q /\ HasId(r) /\ HasId(q)) => heap[r].id # heap[q].id

\* C10: the k-th record of a category of ID_RANGES gets the number
\* range_start + k - 1, so within the category the ids start at the floor,
\* rise by 1 in input order and never repeat, for any count of records.
C10_SequentialFromFloor ==
    AfterAssign =>
        LET cat == Categories
            num == IdNumbers
        IN  \A r \in 1..Len(heap) :
                cat[r] \in DOMAIN ID_RANGES =>
                    /\ HasId(r)
                    /\ SubSeq(heap[r].id, 1, 5) = <<"T", "E", "C", "H", "-">>
                    /\ num[r] = ID_RANGES[cat[r]][1] +
                           Cardinality({q \in 1..r : cat[q] = cat[r]}) - 1
                    /\ \A q \in 1..(r - 1) :
                           cat[q] = cat[r] =>
                               /\ num[q] < num[r]
                               /\ heap[q].id # heap[r].id

\* a category with more records than its range has numbers, the last of them
\* behind a record of another category
C10_Witness ==
    /\ AfterAssign
    /\ \E r \in 2..Len(heap) :
          /\ CategoryOf(orig[r]) \in DOMAIN ID_RANGES
          /\ CategoryOf(orig[r - 1]) # CategoryOf(orig[r])
          /\ IdNumber(heap[r].id) > ID_RANGES[CategoryOf(orig[r])][2]

\* C11: a record whose category is no key of ID_RANGES (the default 'unknown'
\* of a record without category included) is left as it was, without an id,
\* no error is raised, and every record of a category of ID_RANGES gets the id
\* it gets when the list holds the records of those categories only.
C11_UnknownCategorySkipped ==
    AfterAssign =>
        LET cat == Categories
            known == SelectSeq(techniques, LAMBDA r : cat[r] \in DOMAIN ID_RANGES)
            alone == assign_ids(orig, known).heap
        IN  /\ outcome = "ok"
            /\ techniques = [i \in 1..Len(orig) |-> i]
            /\ \A r \in 1..Len(heap) :
                   IF cat[r] \in DOMAIN ID_RANGES
                   THEN heap[r] = alone[r]
                   ELSE heap[r] = orig[r] /\ ~HasId(r)

\* a record without category and a record of a category without range stand
\* between two records of one category of ID_RANGES
C11_Witness ==
    /\ AfterAssign
    /\ \E r, q, s \in 1..Len(heap) :
          /\ r < q /\ q < s
          /\ CategoryOf(orig[r]) \in DOMAIN ID_RANGES
          /\ CategoryOf(orig[r]) = CategoryOf(orig[s])
          /\ "category" \notin DOMAIN orig[q]
          /\ HasId(s)
    /\ \E q \in 1..Len(heap) : CategoryOf(orig[q]) = "misc"

----------------------------------------------------------------------------
(* load_all_sources and run *)

\* load_all_sources has returned, in a run of the workflow
AfterLoad == pc = "loaded" /\ prev = <<>> /\ output = NoOutput /\ orig = <<>>

\* the records a source file holds, in file order
RecordsIn(file) ==
    IF /\ file.kind = "json"
       /\ file.data.type = "dict"
       /\ "techniques" \in DOMAIN file.data.fields
       /\ file.data.fields["techniques"].type = "list"
    THEN file.data.fields["techniques"].items
    ELSE <<>>

\* a record of a file with its `source` set to the given name
Stamped(rec, source) ==
    [f \in DOMAIN rec \cup {"source"} |-> IF f = "source" THEN source ELSE rec[f]]

StampedRecords(file, source) ==
    LET recs == RecordsIn(files[file])
    IN  [i \in 1..Len(recs) |-> Stamped(recs[i], source)]

\* the records of the files in the order Microsoft, research, MITRE
InSourceOrder ==
    StampedRecords("microsoft-roles.json", "Microsoft Official Documentation")
    \o StampedRecords("security-research.json", "Security Research Aggregation")
    \o StampedRecords("mitre-attack.json", "MITRE ATT&CK Framework")

\* the records load_all_sources returned
Loaded == [i \in 1..Len(techniques) |-> heap[techniques[i]]]

\* C12: what load_all_sources returns is the records of the Microsoft file,
\* then those of the security research file, then those of the MITRE file,
\* each file's records in file order, every record unchanged but for
\* `source`, which is the name configured for its file whatever it was before
C12_LoadedInSourceOrder ==
    AfterLoad => /\ outcome = "ok"
                 /\ Loaded = InSourceOrder

\* C12: the research file and the MITRE file both hold a record, and a loaded
\* record came with a `source` of its own
C12_Witness ==
    /\ AfterLoad
    /\ RecordsIn(files["security-research.json"]) # <<>>
    /\ RecordsIn(files["mitre-attack.json"]) # <<>>
    /\ \E f \in FileNames :
         \E i \in 1..Len(RecordsIn(files[f])) :
            /\ "source" \in DOMAIN RecordsIn(files[f])[i]
            /\ \A r \in 1..Len(heap) : heap[r]["source"] # "Blog"

\* the file does not exist
Missing(f) == files[f].kind = "missing"

\* the file holds a JSON object with a list of records under `techniques`
WellFormed(f) ==
    /\ files[f].kind = "json"
    /\ files[f].data.type = "dict"
    /\ "techniques" \in DOMAIN files[f].data.fields
    /\ files[f].data.fields["techniques"].type = "list"

\* load_all_sources has been called, in a run of the workflow
LoadCalled == pc # "start" /\ orig = <<>> /\ again = <<>> /\ sig_calls = <<>>

\* C13: whichever of the three source files are missing, the others being
\* well formed, load_all_sources raises nothing and returns the records of
\* the files that exist; when all three are missing it returns the empty list
\* and the run writes a document with total_techniques = 0
C13_MissingFilesSkipped ==
    (/\ LoadCalled
     /\ \E f \in FileNames : Missing(f)
     /\ \A f \in FileNames : Missing(f) \/ WellFormed(f))
    => /\ pc # "raised"
       /\ outcome = "ok"
       /\ AfterLoad => Loaded = InSourceOrder
       /\ (\A f \in FileNames : Missing(f))
          => /\ AfterLoad => Loaded = <<>>
             /\ pc = "done" => /\ output.written
                               /\ output.total_techniques = 0
                               /\ output.techniques = <<>>

\* C13: the run is over with all three files missing
C13_Witness ==
    /\ pc = "done"
    /\ output.written
    /\ \A f \in FileNames : Missing(f)

\* the file exists and its text is no JSON
Malformed(f) == files[f].kind = "malformed"

\* C14: with one source file of malformed JSON, the others missing or well
\* formed, load_all_sources does not abort: it returns the records of the
\* other files, those read before the malformed one and those read after
C14_MalformedSourceSkipped ==
    (/\ LoadCalled
     /\ \E f \in FileNames :
           /\ Malformed(f)
           /\ \A g \in FileNames \ {f} : Missing(g) \/ WellFormed(g))
    => /\ pc # "raised"
       /\ AfterLoad => Loaded = InSourceOrder

\* the file holds JSON without a list under `techniques`: the top-level value
\* is no object, or the key is missing, or its value is null
NoTechniquesList(f) == files[f].kind = "json" /\ ~WellFormed(f)

\* C15: with a source file of well-formed JSON that has no list under
\* `techniques`, the others missing or well formed, load_all_sources takes
\* the empty list for that file and goes on without raising
C15_NoTechniquesIsEmpty ==
    (/\ LoadCalled
     /\ \E f \in FileNames : NoTechniquesList(f)
     /\ \A f \in FileNames : NoTechniquesList(f) \/ Missing(f) \/ WellFormed(f))
    => /\ pc # "raised"
       /\ AfterLoad => Loaded = InSourceOrder

\* C16: whatever the source files are (missing, malformed, with records that
\* lack `name`), run does not end on an exception, and when it ends the
\* output document is written
C16_RunAlwaysWritesOutput ==
    LoadCalled => /\ pc # "raised"
                  /\ pc = "done" => output.written

----------------------------------------------------------------------------
(* categorize_techniques *)

AfterCategorize == pc \in {"categorized", "categorized_again"}

\* C17: categorize_techniques raises nothing and returns the list it was
\* given, same records in the same order; every record then has a `category`
\* and a `subcategory`, 'unknown' and 'general' where the record had none,
\* and every field the record had keeps its value; a second application
\* changes nothing
C17_CategorizeDefaults ==
    /\ pc # "raised"
    /\ outcome = "ok"
    /\ AfterCategorize =>
          /\ categorized = deduplicated
          /\ Len(heap) = Len(orig)
          /\ \A r \in 1..Len(orig) :
                /\ DOMAIN heap[r] = DOMAIN orig[r] \cup {"category", "subcategory"}
                /\ \A f \in DOMAIN orig[r] : heap[r][f] = orig[r][f]
                /\ "category" \notin DOMAIN orig[r] => heap[r]["category"] = "unknown"
                /\ "subcategory" \notin DOMAIN orig[r]
                      => heap[r]["subcategory"] = "general"
    /\ pc = "categorized_again" => heap = prev /\ again = categorized

\* C17: categorize_techniques has run twice on a list with a record that had
\* neither field and a record that declared both
C17_Witness ==
    /\ pc = "categorized_again"
    /\ \E r \in 1..Len(orig) : DOMAIN orig[r] = {"description"}
    /\ \E r \in 1..Len(orig) : {"category", "subcategory"} \subseteq DOMAIN orig[r]

----------------------------------------------------------------------------
(* merge_techniques and the order of a group *)

\* the orders a group of records can be handed to merge_techniques in
Orderings(G) ==
    {p \in [1..Cardinality(G) -> G] :
        \A i, j \in 1..Cardinality(G) : p[i] = p[j] => i = j}

\* the record merge_techniques returns for the input records in that order
MergedOf(tech_list) ==
    LET m == merge_techniques(orig, tech_list) IN m.heap[m.primary]

\* no two records of the group have the same authority
DistinctAuthorities(G) ==
    \A r, q \in G : r # q => AuthorityOf(orig[r]) # AuthorityOf(orig[q])

MS == "Microsoft Official Documentation"

Research == "Security Research Aggregation"

\* C18: for a group whose records have pairwise distinct authorities,
\* merge_techniques gives the same record (same field values, same
\* `sources`) in whatever order the group is given, and that is the record of
\* the output; for a Microsoft record and a security research record the
\* fields are the Microsoft record's and `sources` is Microsoft (100), then
\* security research (50)
C18_MergeCommutative ==
    AfterDedup =>
        \A s \in Sigs :
            LET G == GroupOf(s)
            IN  (Cardinality(G) >= 2 /\ DistinctAuthorities(G)) =>
                    /\ \A p1, p2 \in Orderings(G) : MergedOf(p1) = MergedOf(p2)
                    /\ \A i \in OutputsOf(s), p1 \in Orderings(G) :
                           heap[deduplicated[i]] = MergedOf(p1)
                    /\ {SourceName(orig[r]) : r \in G} = {MS, Research} =>
                           \A p1 \in Orderings(G) :
                              /\ MergedOf(p1)["source"] = MS
                              /\ \E r \in G : SameFields(MergedOf(p1), orig[r])
                              /\ MergedOf(p1)["sources"] =
                                    << [name |-> MS, authority |-> 100],
                                       [name |-> Research, authority |-> 50] >>

\* C18: a group of a security research record followed by a Microsoft record
C18_Witness ==
    /\ AfterDedup
    /\ \E s \in Sigs :
          /\ Cardinality(GroupOf(s)) = 2
          /\ \E r, q \in GroupOf(s) :
                /\ r < q
                /\ SourceName(orig[r]) = Research
                /\ SourceName(orig[q]) = MS

\* the records of a group whose authority is the group's greatest
Leaders(G) ==
    {r \in G : \A q \in G : AuthorityOf(orig[q]) <= AuthorityOf(orig[r])}

\* C19: when several records of a group share the greatest authority,
\* merge_techniques selects the one that comes first of them in the order the
\* group is given in; in deduplicate_techniques that is the order of the input
C19_TieKeepsFirst ==
    AfterDedup =>
        \A s \in Sigs :
            LET G == GroupOf(s)
            IN  Cardinality(Leaders(G)) >= 2 =>
                    /\ \A i \in OutputsOf(s) :
                          /\ deduplicated[i] \in Leaders(G)
                          /\ \A r \in Leaders(G) : deduplicated[i] <= r
                    /\ \A p \in Orderings(G) :
                          LET at == {i \in DOMAIN p : p[i] \in Leaders(G)}
                              first == CHOOSE i \in at : \A j \in at : i <= j
                          IN  merge_techniques(orig, p).primary = p[first]

\* C19: a group whose first record is outranked by two later records of
\* equal authority; the earlier of the two survives
C19_Witness ==
    /\ AfterDedup
    /\ \E s \in Sigs :
          \E r, q \in Leaders(GroupOf(s)) :
             /\ r < q
             /\ \E i \in OutputsOf(s) : deduplicated[i] = r
             /\ \E w \in GroupOf(s) : w < r

----------------------------------------------------------------------------
(* records without a name *)

Nameless == {r \in Refs : "name" \notin DOMAIN orig[r]}

\* the records whose name is the empty string or white space only
BlankNamed ==
    {r \in Refs : /\ "name" \in DOMAIN orig[r]
                  /\ \A i \in 1..Len(orig[r]["name"].chars) :
                        orig[r]["name"].chars[i] \in Whitespace}

\* C20: a record without `name` has the signature "", as a record whose name
\* is empty or white space has; whatever the input, deduplicate_techniques
\* raises nothing, puts all these records in one group and has exactly one
\* output record for them
C20_NamelessOneGroup ==
    /\ pc # "raised"
    /\ outcome = "ok"
    /\ \A r \in Nameless \cup BlankNamed :
          compute_signature(orig[r]) = [raised |-> FALSE, value |-> <<>>]
    /\ (AfterDedup /\ Nameless # {}) =>
          /\ Nameless \cup BlankNamed = GroupOf(<<>>)
          /\ Cardinality(OutputsOf(<<>>)) = 1

\* C20: two records without a name and a record with a blank name have been
\* deduplicated into one record
C20_Witness ==
    /\ AfterDedup
    /\ Cardinality(Nameless) >= 2
    /\ BlankNamed # {}
    /\ Len(deduplicated) = 1

----------------------------------------------------------------------------
(* the output document *)

\* run has returned
RunDone == pc = "done" /\ orig = <<>>

\* the records of the categorized result, in order
CategorizedRecords == [i \in 1..Len(categorized) |-> heap[categorized[i]]]

\* C21: the document save_results writes has deduplication_complete = true,
\* a `techniques` array that is the categorized result, same records in the
\* same order, and total_techniques equal to the length of that array
C21_DocumentMatchesResult ==
    RunDone => /\ output.written
               /\ output.deduplication_complete = TRUE
               /\ output.techniques = CategorizedRecords
               /\ categorized = deduplicated
               /\ output.total_techniques = Len(output.techniques)
               /\ DOMAIN output = {"written", "deduplication_complete",
                                   "total_techniques", "techniques"}

\* C21: a document of two records written after three were loaded
C21_Witness ==
    /\ RunDone
    /\ output.written
    /\ output.total_techniques = 2
    /\ Len(heap) = 3

\* C22: every record of the `techniques` array of the document run writes
\* carries an `id`, a `sources` list and a `source_count`
C22_OutputRecordsComplete ==
    (RunDone /\ output.written) =>
        \A i \in 1..Len(output.techniques) :
            {"id", "sources", "source_count"} \subseteq DOMAIN output.techniques[i]

----------------------------------------------------------------------------
(* the form of an id *)

Digits == {DigitChar(d) : d \in 0..9}

\* C23: every id assign_ids produces is 'TECH-' followed by exactly three
\* decimal digits, for every category of ID_RANGES and every number of
\* records in the category
C23_IdHasThreeDigits ==
    AfterAssign =>
        \A r \in 1..Len(heap) :
            HasId(r) =>
                /\ Len(heap[r].id) = 8
                /\ SubSeq(heap[r].id, 1, 5) = <<"T", "E", "C", "H", "-">>
                /\ \A i \in 6..Len(heap[r].id) : heap[r].id[i] \in Digits

----------------------------------------------------------------------------
(* the command line *)

\* C24: called with a number of arguments other than two, the command prints
\* a usage message and exits with a non-zero status before the deduplicator
\* is constructed: the output directory is not created, no source file is
\* read and no document is written
C24_WrongArgumentsExit ==
    (argc # 2 /\ pc # "main") =>
        /\ pc = "exited"
        /\ stdout = <<Usage>>
        /\ exit_code.exited
        /\ exit_code.status # 0
        /\ output_dir = FALSE
        /\ heap = <<>>
        /\ techniques = <<>>
        /\ output = NoOutput

\* C24: the command has exited after it was given three arguments
C24_Witness ==
    /\ argc = 3
    /\ pc = "exited"
    /\ exit_code.exited

----------------------------------------------------------------------------
(* the order of the stages of run *)

\* the steps run may take from one stage to the next
StageSteps ==
    { <<"start", "loaded">>, <<"start", "raised">>,
      <<"loaded", "deduplicated">>, <<"loaded", "raised">>,
      <<"deduplicated", "categorized">>,
      <<"categorized", "done">> }

\* number of records in the source files that can be loaded
RecordsInFiles ==
    Len(RecordsIn(files["microsoft-roles.json"]))
    + Len(RecordsIn(files["security-research.json"]))
    + Len(RecordsIn(files["mitre-attack.json"]))

\* one step of run: the next stage, entered with the whole record set of the
\* stage before; the document changes in the step from categorized to done
\* only, from no document to the whole categorized result
StageStep ==
    /\ <<pc, pc'>> \in StageSteps
    /\ pc' = "loaded" => /\ Len(heap') = RecordsInFiles
                         /\ techniques' = [i \in 1..Len(heap') |-> i]
    /\ pc' = "deduplicated" =>
          /\ techniques = [i \in 1..Len(heap) |-> i]
          /\ \A r \in 1..Len(heap) :
                \E i \in 1..Len(deduplicated') :
                   compute_signature(heap[deduplicated'[i]]).value
                      = compute_signature(heap[r]).value
    /\ pc' = "categorized" =>
          /\ categorized' = deduplicated
          /\ \A i \in 1..Len(categorized') :
                {"category", "subcategory"} \subseteq DOMAIN heap'[categorized'[i]]
    /\ pc # "categorized" => output' = output
    /\ pc = "categorized" =>
          /\ output = NoOutput
          /\ output'.written
          /\ output'.techniques = CategorizedRecords

\* C25: the stages of run execute in the order load, deduplicate, categorize,
\* save, each on the whole result of the stage before; the document is
\* written at most once, after categorization, and whole
C25_StagesInOrder ==
    /\ [](output.written => pc = "done")
    /\ [][StageStep]_vars

\* C25: a run over three loaded records has come to its end
C25_Witness ==
    /\ RunDone
    /\ output.written
    /\ Len(heap) = 3
    /\ Len(output.techniques) >= 1
    /\ \A f \in FileNames : RecordsIn(files[f]) # <<>>

----------------------------------------------------------------------------
(* assign_ids applied again *)

AssignedAgain == pc = "assigned_again"

\* C26: assign_ids applied to its own output, or to an equal list in another
\* run, gives every record the id the first application gave it; the number
\* in a record's id is the floor of its category plus the number of records
\* of that category before it, whatever the other records are
C26_AssignIdempotent ==
    /\ AssignedAgain => /\ heap = prev
                        /\ again = techniques
    /\ (AfterAssign \/ AssignedAgain) =>
          LET cat == Categories
              num == IdNumbers
          IN  /\ techniques = [i \in 1..Len(orig) |-> i]
              /\ heap = assign_ids(orig, techniques).heap
              /\ \A r \in 1..Len(heap) :
                    IF cat[r] \in DOMAIN ID_RANGES
                    THEN /\ HasId(r)
                         /\ num[r] = ID_RANGES[cat[r]][1]
                               + Cardinality({q \in 1..(r - 1) : cat[q] = cat[r]})
                    ELSE ~HasId(r)

\* C26: assign_ids has run twice on a list in which records of two
\* categories of ID_RANGES alternate
C26_Witness ==
    /\ AssignedAgain
    /\ \E r \in 3..Len(heap) :
          /\ CategoryOf(orig[r]) \in DOMAIN ID_RANGES
          /\ CategoryOf(orig[r - 1]) \in DOMAIN ID_RANGES
          /\ CategoryOf(orig[r - 1]) # CategoryOf(orig[r])
          /\ CategoryOf(orig[r - 2]) = CategoryOf(orig[r])
          /\ HasId(r)

----------------------------------------------------------------------------
(* what deduplicate_techniques leaves alone *)

\* the records the output list holds
Survivors == {deduplicated[i] : i \in 1..Len(deduplicated)}

\* C27: deduplicate_techniques leaves the list it is given as it was, and
\* changes no input record but the survivor of a group of two or more, on
\* which it sets `sources` and `source_count` only
C27_OnlySurvivorsChange ==
    AfterDedup =>
        /\ techniques = [i \in 1..Len(orig) |-> i]
        /\ Len(heap) = Len(orig)
        /\ \A r \in Refs :
              IF r \in Survivors /\ Cardinality(GroupOf(Sig(r))) >= 2
              THEN /\ SameFields(heap[r], orig[r])
                   /\ DOMAIN heap[r] = DOMAIN orig[r] \cup BookKeeping
              ELSE heap[r] = orig[r]

\* C27: a group of two and a record alone have been deduplicated
C27_Witness ==
    /\ AfterDedup
    /\ Len(orig) = 3
    /\ Len(deduplicated) = 2
    /\ \E r \in Refs : r \notin Survivors
    /\ \E r \in Survivors : Cardinality(GroupOf(Sig(r))) = 1

----------------------------------------------------------------------------
(* load_all_sources followed by deduplicate_techniques *)

\* deduplicate_techniques has returned in a run: prev holds the records as
\* load_all_sources returned them, in load order
DedupOfLoaded == pc = "deduplicated" /\ orig = <<>> /\ Len(prev) = Len(heap)

LoadedSig(r) == compute_signature(prev[r]).value

\* the loaded records with the signature of record r
LoadedGroup(r) == {q \in 1..Len(prev) : LoadedSig(q) = LoadedSig(r)}

\* the first-loaded record of the group stamped with the source, 0 if none
FirstStamped(G, source) ==
    LET of == {q \in G : prev[q]["source"] = source}
    IN  IF of = {} THEN 0 ELSE CHOOSE q \in of : \A w \in of : q <= w

Mitre == "MITRE ATT&CK Framework"

\* C28: after load_all_sources and deduplicate_techniques the survivor of a
\* group of two or more is its first-loaded Microsoft record if it has one,
\* else its first-loaded MITRE record if it has one, although MITRE is loaded
\* after security research, else its first-loaded security research record
C28_SurvivorByAuthority ==
    DedupOfLoaded =>
        \A r \in 1..Len(prev) :
            LET G == LoadedGroup(r)
                expected ==
                    IF FirstStamped(G, MS) # 0 THEN FirstStamped(G, MS)
                    ELSE IF FirstStamped(G, Mitre) # 0 THEN FirstStamped(G, Mitre)
                    ELSE FirstStamped(G, Research)
            IN  Cardinality(G) >= 2 => G \cap Survivors = {expected}

\* C28: a security research record and a MITRE record of one signature, no
\* Microsoft record: the MITRE record, loaded later, survives
C28_Witness ==
    /\ DedupOfLoaded
    /\ \E r, q \in 1..Len(prev) :
          /\ r < q
          /\ q \in LoadedGroup(r)
          /\ prev[r]["source"] = Research
          /\ prev[q]["source"] = Mitre
          /\ FirstStamped(LoadedGroup(r), MS) = 0
          /\ q \in Survivors
          /\ r \notin Survivors

----------------------------------------------------------------------------
(* categories through the pipeline *)

\* the generator has assigned the ids: heap[i] is its copy of the i-th
\* record of the document, which is the i-th record of the deduplicated list
Identified == pc = "identified" /\ Len(heap) = Len(deduplicated)

\* C29: through deduplicate, categorize and assign_ids, the output record of
\* a signature group in which some record declares a category of ID_RANGES
\* gets an id
C29_CategorizedGroupGetsId ==
    Identified =>
        \A s \in Sigs :
            (\E r \in GroupOf(s) : CategoryOf(orig[r]) \in DOMAIN ID_RANGES)
            => \A i \in OutputsOf(s) : HasId(i)

----------------------------------------------------------------------------
(* the markdown files *)

FilesWritten == pc = "written"

\* C30: MarkdownGenerator.run writes every technique of a deduplicated input
\* to a file of its own: two records of distinct signatures have distinct
\* paths, so the files on disk are as many as the techniques, records
\* without an id, named 'TECH-000', included
C30_OneFilePerTechnique ==
    FilesWritten =>
        /\ \A r, q \in 1..Len(heap) :
              (r # q /\ Sig(r) # Sig(q)) => file_path(heap[r]) # file_path(heap[q])
        /\ Cardinality(disk) = Len(techniques)
        /\ \A r \in 1..Len(heap) :
              \E e \in disk : e.path = file_path(heap[r]) /\ e.technique = heap[r]

====
